---------------------------- MODULE Spec2Model ----------------------------
(***************************************************************************)
(* Transaction categorization engine of IntelliFinance                     *)
(* (backend/app/ml/transaction_categorizer.py): the trainable primary      *)
(* classifier with its model store, the lazily built zero-shot fallback    *)
(* and the decision chain categorize_transaction.                          *)
(*                                                                         *)
(* Strings are sequences of one-character strings.  Confidences are in     *)
(* hundredths (0.7 is 70).  Library objects (TfidfVectorizer,              *)
(* RandomForestClassifier, the zero-shot pipeline) are modelled by what    *)
(* the code relies on: a fitted forest answers every vector with one of    *)
(* the classes it was fitted on, deterministically.                        *)
(***************************************************************************)
EXTENDS Integers, Sequences, FiniteSets, TLC

(***************************************************************************)
(* Text                                                                    *)
(***************************************************************************)

\* Python's None, kept apart from every string (no string has an element
\* longer than one character).
None == <<"None">>

UpperCase == <<"A","B","C","D","E","F","G","H","I","J","K","L","M",
               "N","O","P","Q","R","S","T","U","V","W","X","Y","Z">>

LowerCase == <<"a","b","c","d","e","f","g","h","i","j","k","l","m",
               "n","o","p","q","r","s","t","u","v","w","x","y","z">>

Digits == {"0","1","2","3","4","5","6","7","8","9"}

Whitespace == {" ", "\t", "\n"}

\* str.lower on one character
LowerChar(c) ==
    IF \E i \in 1..26 : UpperCase[i] = c
    THEN LowerCase[CHOOSE i \in 1..26 : UpperCase[i] = c]
    ELSE c

\* str.lower
Lower(s) == [i \in 1..Len(s) |-> LowerChar(s[i])]

RECURSIVE LStrip(_)
LStrip(s) ==
    IF s # <<>> /\ Head(s) \in Whitespace THEN LStrip(Tail(s)) ELSE s

RECURSIVE RStrip(_)
RStrip(s) ==
    IF s # <<>> /\ s[Len(s)] \in Whitespace
    THEN RStrip(SubSeq(s, 1, Len(s) - 1))
    ELSE s

\* str.strip
Strip(s) == RStrip(LStrip(s))

StartsWith(s, t) == Len(t) <= Len(s) /\ SubSeq(s, 1, Len(t)) = t

\* str.replace(term, ''): one left-to-right pass over non-overlapping
\* occurrences; an occurrence formed by the removal itself stays.
RECURSIVE RemoveAll(_, _)
RemoveAll(s, term) ==
    IF s = <<>> THEN <<>>
    ELSE IF StartsWith(s, term)
         THEN RemoveAll(SubSeq(s, Len(term) + 1, Len(s)), term)
         ELSE <<Head(s)>> \o RemoveAll(Tail(s), term)

\* the stop list without 'transaction'
RemoveTermsWithoutTransaction ==
    << <<"p","a","y","m","e","n","t">>,
       <<"p","u","r","c","h","a","s","e">>,
       <<"d","e","b","i","t">>,
       <<"c","r","e","d","i","t">>,
       <<"p","o","s">>,
       <<"a","t","m">>,
       <<"w","i","t","h","d","r","a","w","a","l">>,
       <<"d","e","p","o","s","i","t">>,
       <<"t","r","a","n","s","f","e","r">> >>

remove_terms ==
    << <<"p","a","y","m","e","n","t">>,
       <<"p","u","r","c","h","a","s","e">>,
       <<"t","r","a","n","s","a","c","t","i","o","n">>,
       <<"d","e","b","i","t">>,
       <<"c","r","e","d","i","t">>,
       <<"p","o","s">>,
       <<"a","t","m">>,
       <<"w","i","t","h","d","r","a","w","a","l">>,
       <<"d","e","p","o","s","i","t">>,
       <<"t","r","a","n","s","f","e","r">> >>

RECURSIVE RemoveTerms(_, _)
RemoveTerms(s, k) ==
    IF k > Len(remove_terms) THEN s
    ELSE RemoveTerms(RemoveAll(s, remove_terms[k]), k + 1)

\* `if merchant:` is false for None and for the empty string
Truthy(s) == s # None /\ s # <<>>

\* TransactionCategorizer.preprocess_text; a None description raises
\* (AttributeError on .lower()), reported as None.
preprocess_text(description, merchant) ==
    IF description = None THEN None
    ELSE LET text0 == Strip(Lower(description))
             text1 == IF Truthy(merchant)
                      THEN text0 \o <<" ">> \o Strip(Lower(merchant))
                      ELSE text0
         IN  Strip(RemoveTerms(text1, 1))


(***************************************************************************)
(* The vectorizer's analyzer (TfidfVectorizer, lines 23-28)                *)
(***************************************************************************)

WordChar(c) ==
    \/ \E i \in 1..26 : LowerCase[i] = c \/ UpperCase[i] = c
    \/ c \in Digits
    \/ c = "_"

\* a sample of scikit-learn's English stop-word list
EnglishStopWords ==
    { <<"a","t">>, <<"o","f">>, <<"t","h","e">>, <<"a","n","d">> }

\* the default token pattern keeps runs of two or more word characters
KeepToken(tok) == Len(tok) >= 2 /\ tok \notin EnglishStopWords

RECURSIVE Scan(_, _, _)
Scan(s, cur, acc) ==
    IF s = <<>>
    THEN IF KeepToken(cur) THEN Append(acc, cur) ELSE acc
    ELSE IF WordChar(Head(s))
         THEN Scan(Tail(s), Append(cur, Head(s)), acc)
         ELSE Scan(Tail(s), <<>>,
                   IF KeepToken(cur) THEN Append(acc, cur) ELSE acc)

\* the analyzer: lowercase, tokenize, drop stop words
Analyze(text) == Scan(Lower(text), <<>>, <<>>)

\* ngram_range = (1, 2)
NGrams(text) ==
    LET toks == Analyze(text)
    IN  { <<toks[i]>> : i \in 1..Len(toks) }
          \cup { <<toks[i], toks[i + 1]>> : i \in 1..(Len(toks) - 1) }

(***************************************************************************)
(* Category enumeration and the fallback's label table                     *)
(***************************************************************************)

UNCATEGORIZED == "UNCATEGORIZED"

\* members of TransactionCategory the engine refers to
TransactionCategory ==
    { "GROCERIES", "RESTAURANTS", "GAS", "GENERAL_MERCHANDISE", "UTILITIES",
      "MOVIES", "MEDICAL", "BANK_FEES", "TRAVEL", "EDUCATION", "CHARITY",
      UNCATEGORIZED }

\* HuggingFaceCategorizer.categories: the candidate labels of the pipeline
CandidateLabels ==
    { "groceries and food", "restaurants and dining", "transportation and gas",
      "shopping and retail", "utilities and bills", "entertainment",
      "healthcare and medical", "financial services", "travel",
      "education", "charity and donations", "other expenses" }

\* variant: the pipeline's label is returned as it came
MappingForgotten(label) == label

\* category_mapping.get(predicted_label, UNCATEGORIZED)
category_mapping(label) ==
    CASE label = "groceries and food"     -> "GROCERIES"
      [] label = "restaurants and dining" -> "RESTAURANTS"
      [] label = "transportation and gas" -> "GAS"
      [] label = "shopping and retail"    -> "GENERAL_MERCHANDISE"
      [] label = "utilities and bills"    -> "UTILITIES"
      [] label = "entertainment"          -> "MOVIES"
      [] label = "healthcare and medical" -> "MEDICAL"
      [] label = "financial services"     -> "BANK_FEES"
      [] label = "travel"                 -> "TRAVEL"
      [] label = "education"              -> "EDUCATION"
      [] label = "charity and donations"  -> "CHARITY"
      [] label = "other expenses"         -> UNCATEGORIZED
      [] OTHER                            -> UNCATEGORIZED

(***************************************************************************)
(* Inputs                                                                  *)
(***************************************************************************)

sEmpty == <<>>

sAtmCafe == <<"A","T","M"," ","C","a","f","e">>

sGym == <<"G","y","m">>

sBob == <<"B","o","b">>

\* descriptions a caller passes: a missing name, the empty string, a text
Descriptions == { None, sEmpty, sAtmCafe }

Merchants == { None, sEmpty }

\* the Plaid category list passed as the third argument
Hints == { <<>>, <<"Food and Drink">> }

\* longest list handed to predict_batch
MaxBatch == 2

\* the transactions of a batch
BatchItems == { [description |-> d, merchant_name |-> sEmpty] : d \in { None, sAtmCafe } }

Batches == UNION { [1..n -> BatchItems] : n \in 0..MaxBatch }

\* labelled corpora handed to train; a row stands for `count` equal rows
Row(d, m, c, k) == [description |-> d, merchant_name |-> m, category |-> c, count |-> k]

Corpora ==
    { [name |-> "small49",    rows |-> << Row(sAtmCafe, sEmpty, "GROCERIES", 49) >>],
      [name |-> "single50",   rows |-> << Row(sAtmCafe, sEmpty, "GROCERIES", 50) >>],
      [name |-> "two51",      rows |-> << Row(sGym, sEmpty, "RESTAURANTS", 26),
                                          Row(sGym, sBob, "GROCERIES", 25) >>],
      [name |-> "custom50",   rows |-> << Row(sAtmCafe, sEmpty, "legacy_label", 50) >>],
      [name |-> "singleton51", rows |-> << Row(sGym, sBob, "GROCERIES", 50),
                                           Row(sGym, sEmpty, "GAS", 1) >>] }

\* preprocess_text tabulated over the description and merchant pairs in play
Preprocessed ==
    LET ds == Descriptions \cup { sGym }
        ms == Merchants \cup { sBob }
    IN  [p \in ds \X ms |-> preprocess_text(p[1], p[2])] @@ <<>>

\* NGrams tabulated over the preprocessed texts
Grams ==
    [t \in { Preprocessed[p] : p \in DOMAIN Preprocessed } \ {None} |-> NGrams(t)] @@ <<>>

RECURSIVE SumCounts(_, _)
SumCounts(rows, k) ==
    IF k > Len(rows) THEN 0 ELSE rows[k].count + SumCounts(rows, k + 1)

\* len(transactions_df)
RowCount(corpus) == SumCounts(corpus.rows, 1)

\* the distinct values of transactions_df['category']
Labels(corpus) == { corpus.rows[i].category : i \in 1..Len(corpus.rows) }

LabelCount(corpus, c) ==
    SumCounts(SelectSeq(corpus.rows, LAMBDA r : r.category = c), 1)

\* confidences a forest fitted on several classes reports (hundredths)
PrimaryConfs == { 70, 71 }

\* confidences the zero-shot pipeline reports for its top label (hundredths)
FallbackConfs == { 50, 82 }

(***************************************************************************)
(* Feature extractor                                                       *)
(***************************************************************************)

\* TfidfVectorizer(...) as constructed: no vocabulary_ attribute yet
NewVectorizer == [fitted |-> FALSE, vocabulary |-> {}]

\* hasattr(self.vectorizer, 'vocabulary_')
HasVocabulary(v) == v.fitted

\* vocabulary learnt by fit_transform over the texts
FitVocabulary(texts) == UNION { Grams[texts[i]] : i \in 1..Len(texts) }

\* vectorizer.transform of one text: the columns that are set, and the
\* width of the row (the tf-idf weights are not modelled)
Transform(v, text) ==
    [width |-> Cardinality(v.vocabulary), on |-> Grams[text] \cap v.vocabulary]

(***************************************************************************)
(* Primary classifier (RandomForestClassifier, lines 29-33)                *)
(***************************************************************************)

\* RandomForestClassifier(...) as constructed: not fitted
NewForest ==
    [state |-> "unfitted", n_features |-> 0, classes |-> {}, splits |-> {},
     table |-> <<>>]

\* a forest whose fit stopped half way: it has no trees to ask
PartialForest == [NewForest EXCEPT !.state = "partial"]

\* rows the vectorizer can produce for the texts callers pass
InputVectors(v) ==
    { Transform(v, Preprocessed[<<d, m>>]).on :
        d \in Descriptions \ {None}, m \in Merchants }

\* the columns on which the training rows differ: the only ones a tree of
\* the forest can split on
SplitColumns(v, texts) ==
    LET rows == { Transform(v, texts[i]).on : i \in 1..Len(texts) }
    IN  { f \in v.vocabulary : \E r1, r2 \in rows : f \in r1 /\ f \notin r2 }

\* what a forest fitted on `classes` may have learnt: one answer for each
\* pattern of its split columns, among its classes; a single class is
\* answered with probability 1
ForestTables(v, texts, classes) ==
    LET keys == { u \cap SplitColumns(v, texts) : u \in InputVectors(v) }
    IN  IF Cardinality(classes) = 1
        THEN [keys -> { <<c, 100>> : c \in classes }]
        ELSE [keys -> classes \X PrimaryConfs]

\* classifier.predict(x)[0] and max(classifier.predict_proba(x)[0]); an
\* unfitted forest or a row of another width raises
ForestPredict(clf, vec) ==
    LET key == vec.on \cap clf.splits
    IN  IF clf.state # "fitted" \/ vec.width # clf.n_features \/ key \notin DOMAIN clf.table
        THEN <<"raised", "", 0>>
        ELSE <<"returned", clf.table[key][1], clf.table[key][2]>>

(***************************************************************************)
(* State                                                                   *)
(***************************************************************************)

VARIABLES
    ml_categorizer,   \* the module-level TransactionCategorizer instance
    hf_categorizer,   \* the module-level fallback: "None" until constructed
    artifact,         \* the file at model_path
    frame,            \* the call in progress and what it returns; Idle between calls
    hf_constructions, \* how often HuggingFaceCategorizer() has been invoked
    threads           \* the calls of concurrent request threads, one record each

vars == <<ml_categorizer, hf_categorizer, artifact, frame, hf_constructions, threads>>

\* invocations of HuggingFaceCategorizer() counted; the count stays at this
\* value once it is reached
MaxConstructions == 2

\* confidence > 0.7, in hundredths
PrimaryThreshold == 70

\* confidence > 0.5, in hundredths
FallbackThreshold == 50

\* len(transactions_df) < 50
MinTrainingSize == 50

\* test_size = 0.2, as a divisor
TestShare == 5

(***************************************************************************)
(* Model store                                                             *)
(***************************************************************************)

ArtifactKeys == { "vectorizer", "classifier", "is_trained", "categories" }

\* no file at model_path; `dir` says whether the directory of model_path
\* exists
Absent ==
    [kind |-> "absent", dir |-> TRUE, keys |-> {}, vectorizer |-> NewVectorizer,
     classifier |-> NewForest, is_trained |-> FALSE, categories |-> {}]

\* neither the file nor its directory
NoDirectory == [Absent EXCEPT !.dir = FALSE]

\* a file pickle.load cannot read (truncated, or not a pickle)
Unreadable == [Absent EXCEPT !.kind = "unreadable"]

\* variant: the classifier is left out of the dictionary
PickledWithoutClassifier(ml) ==
    [kind |-> "dict", dir |-> TRUE, keys |-> ArtifactKeys \ {"classifier"},
     vectorizer |-> ml.vectorizer, classifier |-> NewForest,
     is_trained |-> ml.is_trained, categories |-> ml.categories]

\* the dictionary save_model pickles
Pickled(ml) ==
    [kind |-> "dict", dir |-> TRUE, keys |-> ArtifactKeys, vectorizer |-> ml.vectorizer,
     classifier |-> ml.classifier, is_trained |-> ml.is_trained,
     categories |-> ml.categories]

\* the fields set by __init__ before it calls load_model
NewCategorizer ==
    [vectorizer |-> NewVectorizer, classifier |-> NewForest,
     is_trained |-> FALSE, categories |-> TransactionCategory]

\* variant: the handler only prints
LoadFailedKeepsFlag(ml) == ml

\* the except branch of load_model
LoadFailed(ml) == [ml EXCEPT !.is_trained = FALSE]

\* TransactionCategorizer.load_model: the fields after the call.  A missing
\* key raises KeyError at its assignment, after the earlier assignments.
load_model(ml, art) ==
    IF art.kind = "absent" THEN ml
    ELSE IF art.kind = "unreadable" THEN LoadFailed(ml)
    ELSE IF "vectorizer" \notin art.keys THEN LoadFailed(ml)
    ELSE IF "classifier" \notin art.keys
         THEN LoadFailed([ml EXCEPT !.vectorizer = art.vectorizer])
    ELSE IF "is_trained" \notin art.keys
         THEN LoadFailed([ml EXCEPT !.vectorizer = art.vectorizer,
                                    !.classifier = art.classifier])
    ELSE [vectorizer |-> art.vectorizer,
          classifier |-> art.classifier,
          is_trained |-> art.is_trained,
          categories |-> IF "categories" \in art.keys
                         THEN art.categories ELSE ml.categories]

\* how writing the file can end
IOOutcomes == { "ok", "oserror_makedirs", "oserror_before_write", "error_during_dump" }

\* variant: a file that is already there is kept
SaveModelKeepsExisting(ml, art, io) ==
    IF ~ml.is_trained \/ art.kind # "absent"
    THEN [artifact |-> art, raised |-> ""]
    ELSE [artifact |-> Pickled(ml), raised |-> ""]

\* variant: no is_trained test
SaveModelUnguarded(ml, art, io) ==
    IF io \in { "oserror_makedirs", "oserror_before_write" }
    THEN [artifact |-> art, raised |-> "OSError"]
    ELSE [artifact |-> Pickled(ml), raised |-> ""]

\* TransactionCategorizer.save_model: the file after the call and the
\* exception it raises ("" for none).  os.makedirs comes first; open(.., 'wb')
\* empties the file before pickle.dump fills it.
save_model(ml, art, io) ==
    IF ~ml.is_trained THEN [artifact |-> art, raised |-> ""]
    ELSE IF io = "oserror_makedirs" THEN [artifact |-> art, raised |-> "OSError"]
    ELSE IF io = "oserror_before_write"
         THEN [artifact |-> [art EXCEPT !.dir = TRUE], raised |-> "OSError"]
    ELSE IF io = "error_during_dump" THEN [artifact |-> Unreadable, raised |-> "PicklingError"]
    ELSE [artifact |-> Pickled(ml), raised |-> ""]

(***************************************************************************)
(* TransactionCategorizer: create_features, train, predict, predict_batch  *)
(***************************************************************************)

\* variant: the vocabulary is learnt anew by every call
CreateFeaturesRefits(v, texts) ==
    IF \E i \in 1..Len(texts) : texts[i] = None
    THEN [vectorizer |-> v, raised |-> TRUE]
    ELSE IF Len(texts) = 0 \/ FitVocabulary(texts) = {}
    THEN [vectorizer |-> v, raised |-> TRUE]
    ELSE [vectorizer |-> [fitted |-> TRUE, vocabulary |-> FitVocabulary(texts)],
          raised |-> FALSE]

\* create_features: the vectorizer after the call and whether it raised.
\* A vectorizer without vocabulary_ is fitted on the texts handed in (an
\* empty vocabulary is a ValueError); one with a vocabulary keeps it.
create_features(v, texts) ==
    IF \E i \in 1..Len(texts) : texts[i] = None
    THEN [vectorizer |-> v, raised |-> TRUE]
    ELSE IF ~HasVocabulary(v)
         THEN IF Len(texts) = 0 \/ FitVocabulary(texts) = {}
              THEN [vectorizer |-> v, raised |-> TRUE]
              ELSE [vectorizer |-> [fitted |-> TRUE, vocabulary |-> FitVocabulary(texts)],
                    raised |-> FALSE]
         ELSE [vectorizer |-> v, raised |-> FALSE]

\* the text column built by create_features
RowTexts(rows) ==
    [i \in 1..Len(rows) |-> Preprocessed[<<rows[i].description, rows[i].merchant_name>>]]

\* variant: a corpus of exactly the minimum size is refused too
TooFewRowsInclusive(n) == n <= MinTrainingSize

\* the size check at the head of train
TooFewRows(n) == n < MinTrainingSize

TestSamples(n) == (n + TestShare - 1) \div TestShare

TrainSamples(n) == n - TestSamples(n)

\* train_test_split(..., test_size=0.2, stratify=y) raises ValueError when a
\* class has a single member or a side of the split has fewer rows than classes
SplitRaises(corpus) ==
    \/ \E c \in Labels(corpus) : LabelCount(corpus, c) < 2
    \/ TestSamples(RowCount(corpus)) < Cardinality(Labels(corpus))
    \/ TrainSamples(RowCount(corpus)) < Cardinality(Labels(corpus))

\* held-out accuracies reported (percent)
AccuracySamples == { 0, 100 }

\* ways a training run can end other than by its own checks
TrainFaults ==
    { "none", "fit_early", "fit_late", "save_makedirs", "save_open", "save_dump" }

SaveOutcome(fault) ==
    CASE fault = "save_makedirs" -> "oserror_makedirs"
      [] fault = "save_open" -> "oserror_before_write"
      [] fault = "save_dump" -> "error_during_dump"
      [] OTHER -> "ok"

TrainResult(ml, art, stage, raised, report) ==
    [ml |-> ml, artifact |-> art, stage |-> stage, raised |-> raised, report |-> report]

NoReport == <<0, 0, 0>>

\* variant: the features are built before the size is checked
TrainRejectedAfterFeatures(ml, art, corpus) ==
    TrainResult([ml EXCEPT !.vectorizer =
                     create_features(ml.vectorizer, RowTexts(corpus.rows)).vectorizer],
                art, "size_check", "ValueError", NoReport)

\* the raise of the size check: nothing has been touched yet
TrainRejected(ml, art, corpus) ==
    TrainResult(ml, art, "size_check", "ValueError", NoReport)

\* variant: a model that scores nothing on the held-out rows is not promoted
MarkTrainedIfAccurate(ml, accuracy) ==
    [ml EXCEPT !.is_trained = @ \/ accuracy > 0]

\* self.is_trained = True, whatever accuracy_score returned two lines above
MarkTrained(ml, accuracy) == [ml EXCEPT !.is_trained = TRUE]

\* TransactionCategorizer.train.  `table` is what the forest learns from the
\* corpus and `accuracy` what the held-out rows score; `fault` is where the
\* environment makes the run fail.
train(ml, art, corpus, fault, table, accuracy) ==
    IF TooFewRows(RowCount(corpus))
    THEN TrainRejected(ml, art, corpus)
    ELSE
    LET feat == create_features(ml.vectorizer, RowTexts(corpus.rows))
        ml1  == [ml EXCEPT !.vectorizer = feat.vectorizer]
        width == Cardinality(feat.vectorizer.vocabulary)
        fitted == [state |-> "fitted", n_features |-> width,
                   classes |-> Labels(corpus),
                   splits |-> SplitColumns(feat.vectorizer, RowTexts(corpus.rows)),
                   table |-> table]
        ml2  == [ml1 EXCEPT !.classifier = fitted]
        ml3  == MarkTrained(ml2, accuracy)
        saved == save_model(ml3, art, SaveOutcome(fault))
    IN  IF feat.raised
        THEN TrainResult(ml1, art, "create_features", "ValueError", NoReport)
        ELSE IF SplitRaises(corpus)
        THEN TrainResult(ml1, art, "split", "ValueError", NoReport)
        ELSE IF fault = "fit_early"
        THEN TrainResult(ml1, art, "fit", "MemoryError", NoReport)
        ELSE IF fault = "fit_late"
        THEN TrainResult([ml1 EXCEPT !.classifier = PartialForest], art, "fit", "MemoryError", NoReport)
        ELSE IF saved.raised # ""
        THEN TrainResult(ml3, saved.artifact, "save", saved.raised, NoReport)
        ELSE TrainResult(ml3, saved.artifact, "done", "",
                         <<accuracy, TrainSamples(RowCount(corpus)),
                           TestSamples(RowCount(corpus))>>)

\* the early return of predict and predict_batch for an untrained model
UntrainedPrediction == <<"returned", UNCATEGORIZED, 0>>

\* predict past the is_trained test
TrainedPredict(ml, description, merchant_name) ==
    LET text == Preprocessed[<<description, merchant_name>>]
    IN  IF text = None \/ ~HasVocabulary(ml.vectorizer)
        THEN <<"raised", "", 0>>
        ELSE ForestPredict(ml.classifier, Transform(ml.vectorizer, text))

\* variant: no is_trained test
PredictUnguarded(ml, description, merchant_name) ==
    TrainedPredict(ml, description, merchant_name)

\* TransactionCategorizer.predict: <<"returned", category, confidence>>, or
\* <<"raised", "", 0>> when an exception leaves the method
predict(ml, description, merchant_name) ==
    IF ~ml.is_trained
    THEN UntrainedPrediction
    ELSE TrainedPredict(ml, description, merchant_name)

\* TransactionCategorizer.predict_batch: the instance after the call, the
\* list returned and whether an exception left the method
predict_batch(ml, transactions) ==
    IF ~ml.is_trained
    THEN [ml |-> ml, raised |-> FALSE,
          predictions |-> [i \in 1..Len(transactions) |-> UntrainedPrediction]]
    ELSE
    LET feat == create_features(ml.vectorizer, RowTexts(transactions))
        ml1  == [ml EXCEPT !.vectorizer = feat.vectorizer]
        out  == [i \in 1..Len(transactions) |->
                   IF feat.raised THEN <<"raised", "", 0>>
                   ELSE ForestPredict(ml.classifier,
                          Transform(feat.vectorizer, RowTexts(transactions)[i]))]
        \* the forest refuses an array without rows
        bad  == Len(transactions) = 0 \/ feat.raised \/ \E i \in 1..Len(transactions) : out[i][1] = "raised"
    IN  [ml |-> ml1, raised |-> bad, predictions |-> IF bad THEN <<>> ELSE out]

(***************************************************************************)
(* Fallback classifier and the decision chain                              *)
(***************************************************************************)

\* top labels the pipeline is let to report here
SampleLabels == { "restaurants and dining", "other expenses" }

\* what the zero-shot pipeline can do with a text: raise, or rank the
\* candidate labels and report the top one with its score
PipelineOutcomes ==
    { <<"raised", "", 0>> }
      \cup { <<"returned", l, c>> : l \in SampleLabels, c \in FallbackConfs }

\* HuggingFaceCategorizer.predict on a pipeline outcome
hf_predict(pipe) ==
    IF pipe[1] = "raised" THEN pipe
    ELSE <<"returned", category_mapping(pipe[2]), pipe[3]>>

\* variant: the threshold itself passes the gate
PrimaryConfidentInclusive(confidence) == confidence >= PrimaryThreshold

\* variant: the threshold itself passes the gate
FallbackConfidentInclusive(confidence) == confidence >= FallbackThreshold

\* variant: the handler lets the exception go on to the caller
ExceptReraises(exc) == [category |-> "", raised |-> exc]

\* if confidence > 0.7
PrimaryConfident(confidence) == confidence > PrimaryThreshold

\* if confidence > 0.5
FallbackConfident(confidence) == confidence > FallbackThreshold

\* except around HuggingFaceCategorizer(): print, return UNCATEGORIZED
ConstructExcept(exc) == [category |-> UNCATEGORIZED, raised |-> ""]

\* the outer except of categorize_transaction: print, return UNCATEGORIZED
OuterExcept(exc) == [category |-> UNCATEGORIZED, raised |-> ""]

Decision(end, hf, primary, construct, fallback) ==
    [category |-> end.category, raised |-> end.raised, hf |-> hf,
     primary |-> primary, construct |-> construct, fallback |-> fallback]

Returns(category) == [category |-> category, raised |-> ""]

NotCalled == <<"skipped", "", 0>>

\* variant: with no confident model the first Plaid category is the answer
BothUnsureTakesHint(categories) ==
    IF categories # <<>> THEN Returns(categories[1]) ELSE Returns(UNCATEGORIZED)

\* both models have low confidence: UNCATEGORIZED, the hints are not asked
BothUnsure(categories) == Returns(UNCATEGORIZED)

\* categorize_transaction.  `constructs` says whether HuggingFaceCategorizer()
\* succeeds if it is called, `pipe` what the pipeline does if it is called.
\* The third argument, categories, is not read.
categorize_transaction(ml, hf, description, merchant_name, categories, constructs, pipe) ==
    LET primary == IF ml.is_trained
                   THEN predict(ml, description, merchant_name)
                   ELSE NotCalled
    IN  IF primary[1] = "raised"
        THEN Decision(OuterExcept("predict"), hf, primary, "skipped", NotCalled)
        ELSE IF primary[1] = "returned" /\ PrimaryConfident(primary[3])
        THEN Decision(Returns(primary[2]), hf, primary, "skipped", NotCalled)
        ELSE IF hf = "None" /\ ~constructs
        THEN Decision(ConstructExcept("HuggingFaceCategorizer"), hf, primary,
                      "failed", NotCalled)
        ELSE
        LET construct == IF hf = "None" THEN "constructed" ELSE "reused"
            hf1 == "HuggingFaceCategorizer"
            fallback == hf_predict(pipe)
        IN  IF fallback[1] = "raised"
            THEN Decision(OuterExcept("hf_predict"), hf1, primary, construct, pipe)
            ELSE IF FallbackConfident(fallback[3])
            THEN Decision(Returns(fallback[2]), hf1, primary, construct, pipe)
            ELSE Decision(BothUnsure(categories), hf1, primary, construct, pipe)

(***************************************************************************)
(* Calls                                                                   *)
(***************************************************************************)

\* HuggingFaceCategorizer() invoked once more
CountConstruction(n) == IF n < MaxConstructions THEN n + 1 ELSE n

\* request threads of the host that call into the module at the same time
NumThreads == 2

Threads == 1..NumThreads

\* a thread that has not called yet.  `vector` is the row predict built,
\* `observed` the vectorizer and classifier objects its reads met.
ThreadIdle ==
    [pc |-> "idle", op |-> "", description |-> None, merchant_name |-> None,
     corpus |-> "", vector |-> [width |-> 0, on |-> {}], observed |-> <<>>,
     primary |-> <<"skipped", "", 0>>, construct |-> "skipped",
     fallback |-> <<"skipped", "", 0>>, category |-> "", raised |-> ""]

\* variant: the fallback is built when the module is imported
EagerFallback == "HuggingFaceCategorizer"

\* _hf_categorizer = None at import
LazyFallback == "None"

\* no call in progress
Idle ==
    [op |-> "idle", description |-> None, merchant_name |-> None, categories |-> <<>>,
     transactions |-> <<>>, corpus |-> "", primary |-> NotCalled,
     construct |-> "skipped", fallback |-> NotCalled, stage |-> "",
     category |-> "", prediction |-> NotCalled, predictions |-> <<>>,
     report |-> NoReport, raised |-> "", text |-> None]

\* artifacts a process can find at start: no directory, no file, an unreadable file,
\* dictionaries of another layout, and the artifact of an earlier training
EarlierModel ==
    LET c == CHOOSE c \in Corpora : c.name = "single50"
        v == create_features(NewVectorizer, RowTexts(c.rows)).vectorizer
        t == CHOOSE t \in ForestTables(v, RowTexts(c.rows), Labels(c)) : TRUE
    IN  train(NewCategorizer, Absent, c, "none", t, 100).artifact

StartArtifacts ==
    { NoDirectory, Absent, Unreadable, EarlierModel,
      [EarlierModel EXCEPT !.keys = {}],
      [EarlierModel EXCEPT !.keys = {"vectorizer"}],
      [EarlierModel EXCEPT !.keys = {"vectorizer", "classifier"}],
      [EarlierModel EXCEPT !.keys = ArtifactKeys \ {"categories"}] }

\* import of the module: _ml_categorizer = TransactionCategorizer(), whose
\* __init__ ends with load_model(); _hf_categorizer = None
Init ==
    /\ artifact \in StartArtifacts
    /\ ml_categorizer = load_model(NewCategorizer, artifact)
    /\ hf_categorizer = LazyFallback
    /\ frame = [Idle EXCEPT !.op = "__init__"]
    /\ hf_constructions = 0
    /\ threads = [t \in Threads |-> ThreadIdle]

CallCategorize ==
    /\ frame = Idle
    /\ \E d \in Descriptions, m \in Merchants, h \in Hints,
          constructs \in BOOLEAN, pipe \in PipelineOutcomes :
          LET r == categorize_transaction(ml_categorizer, hf_categorizer,
                                          d, m, h, constructs, pipe)
          IN  /\ hf_categorizer' = r.hf
              /\ hf_constructions' = IF r.construct \in { "constructed", "failed" }
                                     THEN CountConstruction(hf_constructions)
                                     ELSE hf_constructions
              /\ frame' = [Idle EXCEPT !.op = "categorize_transaction",
                                       !.description = d, !.merchant_name = m,
                                       !.categories = h, !.primary = r.primary,
                                       !.construct = r.construct,
                                       !.fallback = r.fallback,
                                       !.category = r.category,
                                       !.raised = r.raised]
    /\ UNCHANGED <<ml_categorizer, artifact, threads>>

CallPredict ==
    /\ frame = Idle
    /\ \E d \in Descriptions, m \in Merchants :
          LET r == predict(ml_categorizer, d, m)
          IN  frame' = [Idle EXCEPT !.op = "predict",
                                    !.description = d, !.merchant_name = m,
                                    !.prediction = r,
                                    !.raised = IF r[1] = "raised" THEN "Exception" ELSE ""]
    /\ UNCHANGED <<ml_categorizer, hf_categorizer, artifact, hf_constructions, threads>>

CallPredictBatch ==
    /\ frame = Idle
    /\ \E b \in Batches :
          LET r == predict_batch(ml_categorizer, b)
          IN  /\ ml_categorizer' = r.ml
              /\ frame' = [Idle EXCEPT !.op = "predict_batch",
                                       !.transactions = b,
                                       !.predictions = r.predictions,
                                       !.raised = IF r.raised THEN "Exception" ELSE ""]
    /\ UNCHANGED <<hf_categorizer, artifact, hf_constructions, threads>>

CallTrain ==
    /\ frame = Idle
    /\ \E corpus \in Corpora, fault \in TrainFaults :
          LET v == create_features(ml_categorizer.vectorizer,
                                   RowTexts(corpus.rows)).vectorizer
              all == ForestTables(v, RowTexts(corpus.rows), Labels(corpus))
              \* a run that never ends its fit learns nothing to choose among
              fits == /\ ~TooFewRows(RowCount(corpus))
                      /\ ~SplitRaises(corpus)
                      /\ fault \notin {"fit_early", "fit_late"}
              tables == IF fits THEN all ELSE { CHOOSE t \in all : TRUE }
              scores == IF fits /\ Cardinality(Labels(corpus)) > 1
                        THEN AccuracySamples ELSE { 100 }
          IN  \E table \in tables, accuracy \in scores :
                /\ LET r == train(ml_categorizer, artifact, corpus, fault, table, accuracy)
                   IN  /\ ml_categorizer' = r.ml
                       /\ artifact' = r.artifact
                       /\ frame' = [Idle EXCEPT !.op = "train",
                                                !.corpus = corpus.name,
                                                !.stage = r.stage,
                                                !.report = r.report,
                                                !.raised = r.raised]
    /\ UNCHANGED <<hf_categorizer, hf_constructions, threads>>

CallSaveModel ==
    /\ frame = Idle
    /\ \E io \in IOOutcomes :
          LET r == save_model(ml_categorizer, artifact, io)
          IN  /\ artifact' = r.artifact
              /\ frame' = [Idle EXCEPT !.op = "save_model", !.raised = r.raised]
    /\ UNCHANGED <<ml_categorizer, hf_categorizer, hf_constructions, threads>>

CallLoadModel ==
    /\ frame = Idle
    /\ ml_categorizer' = load_model(ml_categorizer, artifact)
    /\ frame' = [Idle EXCEPT !.op = "load_model"]
    /\ UNCHANGED <<hf_categorizer, artifact, hf_constructions, threads>>

\* the caller takes the result
Return ==
    /\ frame # Idle
    /\ frame' = Idle
    /\ UNCHANGED <<ml_categorizer, hf_categorizer, artifact, hf_constructions, threads>>

Next ==
    \/ CallCategorize
    \/ CallPredict
    \/ CallPredictBatch
    \/ CallTrain
    \/ CallSaveModel
    \/ CallLoadModel
    \/ Return

Spec == Init /\ [][Next]_vars

(***************************************************************************)
(* HuggingFaceCategorizer.predict on its own: the pipeline is asked about  *)
(* a text and its top label goes through category_mapping                  *)
(***************************************************************************)

\* labels that are not among the candidate labels
ForeignLabels == { "", "Travel", "GROCERIES", "food and drink", "unknown" }

\* what a pipeline can report as its top label and score
MapperOutcomes ==
    { <<"raised", "", 0>> }
      \cup { <<"returned", l, c>> : l \in CandidateLabels \cup ForeignLabels,
                                    c \in FallbackConfs }

\* a constructed fallback is about to be asked
MapperInit ==
    /\ artifact = Absent
    /\ ml_categorizer = NewCategorizer
    /\ hf_categorizer = "HuggingFaceCategorizer"
    /\ hf_constructions = 1
    /\ threads = [t \in Threads |-> ThreadIdle]
    /\ \E d \in Descriptions, m \in Merchants :
          frame = [Idle EXCEPT !.op = "hf_predict_called",
                               !.description = d, !.merchant_name = m]

\* HuggingFaceCategorizer.predict returns (or raises what the pipeline raised)
HfPredictReturns ==
    /\ frame.op = "hf_predict_called"
    /\ \E pipe \in MapperOutcomes :
          frame' = [frame EXCEPT !.op = "hf_predict",
                                 !.fallback = pipe,
                                 !.prediction = hf_predict(pipe),
                                 !.raised = IF pipe[1] = "raised" THEN "Exception" ELSE ""]
    /\ UNCHANGED <<ml_categorizer, hf_categorizer, artifact, hf_constructions, threads>>

MapperNext == HfPredictReturns

SpecMapper == MapperInit /\ [][MapperNext]_vars

(***************************************************************************)
(* Concurrent callers.  The module takes no lock, so the calls of request  *)
(* threads interleave between any two accesses to _ml_categorizer,         *)
(* _hf_categorizer or the file.  Each thread makes one call; a step is one *)
(* such access together with the local work that follows it.               *)
(***************************************************************************)

\* what a process finds at start when threads are looked at
ThreadStartArtifacts == { Absent, EarlierModel }

\* merchant names the threads pass: the default of categorize_transaction
ThreadMerchants == { sEmpty }

ThreadsInit ==
    /\ artifact \in ThreadStartArtifacts
    /\ ml_categorizer = load_model(NewCategorizer, artifact)
    /\ hf_categorizer = LazyFallback
    /\ hf_constructions = 0
    /\ frame = Idle
    /\ threads = [t \in Threads |-> ThreadIdle]

\* predict has ended with `pred`: a predict caller is done; in
\* categorize_transaction lines 286-288 and 306-309 decide how to go on
AfterPredict(l, pred) ==
    IF l.op = "predict"
    THEN [l EXCEPT !.pc = "done", !.primary = pred,
                   !.raised = IF pred[1] = "raised" THEN "Exception" ELSE ""]
    ELSE IF pred[1] = "raised"
    THEN [l EXCEPT !.pc = "done", !.primary = pred,
                   !.category = OuterExcept("predict").category,
                   !.raised = OuterExcept("predict").raised]
    ELSE IF PrimaryConfident(pred[3])
    THEN [l EXCEPT !.pc = "done", !.primary = pred, !.category = pred[2]]
    ELSE [l EXCEPT !.pc = "c_hf_none", !.primary = pred]

\* a thread enters categorize_transaction
ThreadCategorize(t) ==
    /\ threads[t].pc = "idle"
    /\ \E d \in Descriptions, m \in ThreadMerchants :
          threads' = [threads EXCEPT ![t] =
                        [ThreadIdle EXCEPT !.pc = "c_is_trained",
                                           !.op = "categorize_transaction",
                                           !.description = d, !.merchant_name = m]]
    /\ UNCHANGED <<ml_categorizer, hf_categorizer, artifact, frame, hf_constructions>>

\* line 285: if _ml_categorizer.is_trained
ThreadReadIsTrained(t) ==
    /\ threads[t].pc = "c_is_trained"
    /\ threads' = [threads EXCEPT ![t].pc =
                      IF ml_categorizer.is_trained THEN "p_is_trained" ELSE "c_hf_none"]
    /\ UNCHANGED <<ml_categorizer, hf_categorizer, artifact, frame, hf_constructions>>

\* line 119: if not self.is_trained
ThreadPredictGuard(t) ==
    /\ threads[t].pc = "p_is_trained"
    /\ threads' = [threads EXCEPT ![t] =
                      IF ~ml_categorizer.is_trained
                      THEN AfterPredict(@, UntrainedPrediction)
                      ELSE [@ EXCEPT !.pc = "p_transform"]]
    /\ UNCHANGED <<ml_categorizer, hf_categorizer, artifact, frame, hf_constructions>>

\* lines 124-127: preprocess_text and self.vectorizer.transform([text])
ThreadPredictTransform(t) ==
    /\ threads[t].pc = "p_transform"
    /\ LET l == threads[t]
           text == Preprocessed[<<l.description, l.merchant_name>>]
       IN  threads' = [threads EXCEPT ![t] =
                         IF text = None \/ ~HasVocabulary(ml_categorizer.vectorizer)
                         THEN AfterPredict(l, <<"raised", "", 0>>)
                         ELSE [l EXCEPT !.pc = "p_predict",
                                        !.vector = Transform(ml_categorizer.vectorizer, text),
                                        !.observed = << ml_categorizer.vectorizer >>]]
    /\ UNCHANGED <<ml_categorizer, hf_categorizer, artifact, frame, hf_constructions>>

\* line 130: self.classifier.predict(text_vector)[0]
ThreadPredictClassify(t) ==
    /\ threads[t].pc = "p_predict"
    /\ LET l == [threads[t] EXCEPT !.observed = Append(@, ml_categorizer.classifier)]
           r == ForestPredict(ml_categorizer.classifier, l.vector)
       IN  threads' = [threads EXCEPT ![t] =
                         IF r[1] = "raised"
                         THEN AfterPredict(l, r)
                         ELSE [l EXCEPT !.pc = "p_proba",
                                        !.primary = <<"returned", r[2], 0>>]]
    /\ UNCHANGED <<ml_categorizer, hf_categorizer, artifact, frame, hf_constructions>>

\* line 131: max(self.classifier.predict_proba(text_vector)[0])
ThreadPredictProba(t) ==
    /\ threads[t].pc = "p_proba"
    /\ LET l == [threads[t] EXCEPT !.observed = Append(@, ml_categorizer.classifier)]
           r == ForestPredict(ml_categorizer.classifier, l.vector)
       IN  threads' = [threads EXCEPT ![t] =
                         IF r[1] = "raised"
                         THEN AfterPredict(l, r)
                         ELSE AfterPredict(l, <<"returned", l.primary[2], r[3]>>)]
    /\ UNCHANGED <<ml_categorizer, hf_categorizer, artifact, frame, hf_constructions>>

\* line 291: if _hf_categorizer is None
ThreadCheckFallback(t) ==
    /\ threads[t].pc = "c_hf_none"
    /\ threads' = [threads EXCEPT ![t] =
                      IF hf_categorizer = "None"
                      THEN [@ EXCEPT !.pc = "c_construct"]
                      ELSE [@ EXCEPT !.pc = "c_fallback", !.construct = "reused"]]
    /\ UNCHANGED <<ml_categorizer, hf_categorizer, artifact, frame, hf_constructions>>

\* variant: the global is cleared while a new fallback is being built
ResetWhileConstructing(hf) == "None"

\* _hf_categorizer while HuggingFaceCategorizer() runs: not touched
GlobalWhileConstructing(hf) == hf

\* line 293, right-hand side: HuggingFaceCategorizer() runs and returns or
\* raises into lines 294-296
ThreadConstruct(t) ==
    /\ threads[t].pc = "c_construct"
    /\ hf_constructions' = CountConstruction(hf_constructions)
    /\ hf_categorizer' = GlobalWhileConstructing(hf_categorizer)
    /\ \E constructs \in BOOLEAN :
          threads' = [threads EXCEPT ![t] =
                        IF constructs
                        THEN [@ EXCEPT !.pc = "c_assign", !.construct = "constructed"]
                        ELSE [@ EXCEPT !.pc = "done", !.construct = "failed",
                                 !.category = ConstructExcept("HuggingFaceCategorizer").category,
                                 !.raised = ConstructExcept("HuggingFaceCategorizer").raised]]
    /\ UNCHANGED <<ml_categorizer, artifact, frame>>

\* line 293: the new instance is bound to _hf_categorizer
ThreadAssign(t) ==
    /\ threads[t].pc = "c_assign"
    /\ hf_categorizer' = "HuggingFaceCategorizer"
    /\ threads' = [threads EXCEPT ![t].pc = "c_fallback"]
    /\ UNCHANGED <<ml_categorizer, artifact, frame, hf_constructions>>

\* lines 299-304: _hf_categorizer.predict on the global as it is now, then
\* the 0.5 gate; an exception goes to lines 306-309.  `fallback` keeps the
\* pipeline's answer for this call's text.
ThreadFallback(t) ==
    /\ threads[t].pc = "c_fallback"
    /\ \E pipe \in PipelineOutcomes :
          LET asked == IF hf_categorizer = "None" THEN <<"raised", "", 0>> ELSE pipe
              r == hf_predict(asked)
              end == IF r[1] = "raised" THEN OuterExcept("hf_predict")
                     ELSE IF FallbackConfident(r[3]) THEN Returns(r[2])
                     ELSE Returns(UNCATEGORIZED)
          IN  threads' = [threads EXCEPT ![t] =
                            [@ EXCEPT !.pc = "done", !.fallback = pipe,
                                      !.category = end.category, !.raised = end.raised]]
    /\ UNCHANGED <<ml_categorizer, hf_categorizer, artifact, frame, hf_constructions>>

CategorizeThreadsNext ==
    \E t \in Threads :
        \/ ThreadCategorize(t)
        \/ ThreadReadIsTrained(t)
        \/ ThreadPredictGuard(t)
        \/ ThreadPredictTransform(t)
        \/ ThreadPredictClassify(t)
        \/ ThreadPredictProba(t)
        \/ ThreadCheckFallback(t)
        \/ ThreadConstruct(t)
        \/ ThreadAssign(t)
        \/ ThreadFallback(t)

\* concurrent categorize_transaction calls and nothing else
SpecCategorizeThreads == ThreadsInit /\ [][CategorizeThreadsNext]_vars

\* a thread enters TransactionCategorizer.predict on the shared instance
ThreadPredict(t) ==
    /\ threads[t].pc = "idle"
    /\ \E d \in Descriptions, m \in ThreadMerchants :
          threads' = [threads EXCEPT ![t] =
                        [ThreadIdle EXCEPT !.pc = "p_is_trained", !.op = "predict",
                                           !.description = d, !.merchant_name = m]]
    /\ UNCHANGED <<ml_categorizer, hf_categorizer, artifact, frame, hf_constructions>>

\* corpora the threads train on
ThreadCorpora == { c \in Corpora : c.name \in { "small49", "single50", "two51" } }

\* a thread enters train; lines 86-87 look at the argument only
ThreadTrain(t) ==
    /\ threads[t].pc = "idle"
    /\ \E corpus \in ThreadCorpora :
          threads' = [threads EXCEPT ![t] =
                        IF TooFewRows(RowCount(corpus))
                        THEN [ThreadIdle EXCEPT !.pc = "done", !.op = "train",
                                                !.corpus = corpus.name,
                                                !.raised = "ValueError"]
                        ELSE [ThreadIdle EXCEPT !.pc = "t_features", !.op = "train",
                                                !.corpus = corpus.name]]
    /\ UNCHANGED <<ml_categorizer, hf_categorizer, artifact, frame, hf_constructions>>

\* lines 90-96: create_features on the shared vectorizer (fitting it if it
\* has no vocabulary), then the stratified split.  `observed` keeps the
\* vectorizer the matrix X was made with.
ThreadTrainFeatures(t) ==
    /\ threads[t].pc = "t_features"
    /\ LET corpus == CHOOSE c \in Corpora : c.name = threads[t].corpus
           feat == create_features(ml_categorizer.vectorizer, RowTexts(corpus.rows))
       IN  /\ ml_categorizer' = [ml_categorizer EXCEPT !.vectorizer = feat.vectorizer]
           /\ threads' = [threads EXCEPT ![t] =
                            IF feat.raised \/ SplitRaises(corpus)
                            THEN [@ EXCEPT !.pc = "done", !.raised = "ValueError"]
                            ELSE [@ EXCEPT !.pc = "t_fit",
                                           !.observed = << feat.vectorizer >>]]
    /\ UNCHANGED <<hf_categorizer, artifact, frame, hf_constructions>>

\* line 99: classifier.fit starts to rebuild the shared forest in place
ThreadTrainFitBegins(t) ==
    /\ threads[t].pc = "t_fit"
    /\ ml_categorizer' = [ml_categorizer EXCEPT !.classifier = PartialForest]
    /\ threads' = [threads EXCEPT ![t].pc = "t_fitting"]
    /\ UNCHANGED <<hf_categorizer, artifact, frame, hf_constructions>>

\* line 99: classifier.fit returns.  Two fits at work on the one forest
\* race on its attributes: the forest may be left unusable.
ThreadTrainFitEnds(t) ==
    /\ threads[t].pc = "t_fitting"
    /\ LET corpus == CHOOSE c \in Corpora : c.name = threads[t].corpus
           v == threads[t].observed[1]
           texts == RowTexts(corpus.rows)
           raced == \E u \in Threads \ {t} : threads[u].pc = "t_fitting"
           fitted == { [state |-> "fitted", n_features |-> Cardinality(v.vocabulary),
                        classes |-> Labels(corpus), splits |-> SplitColumns(v, texts),
                        table |-> table] :
                          table \in ForestTables(v, texts, Labels(corpus)) }
       IN  \E forest \in fitted \cup (IF raced THEN { PartialForest } ELSE {}) :
              ml_categorizer' = [ml_categorizer EXCEPT !.classifier = forest]
    /\ threads' = [threads EXCEPT ![t].pc = "t_evaluate"]
    /\ UNCHANGED <<hf_categorizer, artifact, frame, hf_constructions>>

\* lines 102-105: classifier.predict(X_test) on the shared forest as it is
\* now, then self.is_trained = True
ThreadTrainEvaluate(t) ==
    /\ threads[t].pc = "t_evaluate"
    /\ LET clf == ml_categorizer.classifier
           width == Cardinality(threads[t].observed[1].vocabulary)
           raises == clf.state # "fitted" \/ clf.n_features # width
       IN  /\ ml_categorizer' = IF raises THEN ml_categorizer
                                ELSE MarkTrained(ml_categorizer, 100)
           /\ threads' = [threads EXCEPT ![t] =
                            IF raises
                            THEN [@ EXCEPT !.pc = "done", !.raised = "Exception"]
                            ELSE [@ EXCEPT !.pc = "t_save"]]
    /\ UNCHANGED <<hf_categorizer, artifact, frame, hf_constructions>>

\* lines 186-198: save_model as far as open(self.model_path, 'wb'), which
\* leaves an empty file
ThreadSaveOpen(t) ==
    /\ threads[t].pc = "t_save"
    /\ artifact' = IF ml_categorizer.is_trained THEN Unreadable ELSE artifact
    /\ threads' = [threads EXCEPT ![t].pc =
                      IF ml_categorizer.is_trained THEN "t_dump" ELSE "done"]
    /\ UNCHANGED <<ml_categorizer, hf_categorizer, frame, hf_constructions>>

\* line 199: pickle.dump of the instance's fields as they are now; train
\* returns its report
ThreadSaveDump(t) ==
    /\ threads[t].pc = "t_dump"
    /\ artifact' = Pickled(ml_categorizer)
    /\ threads' = [threads EXCEPT ![t].pc = "done"]
    /\ UNCHANGED <<ml_categorizer, hf_categorizer, frame, hf_constructions>>

ThreadsNext ==
    \E t \in Threads :
        \/ ThreadCategorize(t)
        \/ ThreadReadIsTrained(t)
        \/ ThreadPredict(t)
        \/ ThreadPredictGuard(t)
        \/ ThreadPredictTransform(t)
        \/ ThreadPredictClassify(t)
        \/ ThreadPredictProba(t)
        \/ ThreadCheckFallback(t)
        \/ ThreadConstruct(t)
        \/ ThreadAssign(t)
        \/ ThreadFallback(t)
        \/ ThreadTrain(t)
        \/ ThreadTrainFeatures(t)
        \/ ThreadTrainFitBegins(t)
        \/ ThreadTrainFitEnds(t)
        \/ ThreadTrainEvaluate(t)
        \/ ThreadSaveOpen(t)
        \/ ThreadSaveDump(t)

\* concurrent categorize_transaction, predict and train calls
SpecThreads == ThreadsInit /\ [][ThreadsNext]_vars

(***************************************************************************)
(* preprocess_text on its own                                              *)
(***************************************************************************)

\* descriptions with stop terms in several positions and spellings
TextDescriptions ==
    { None,
      <<>>,
      <<"A","T","M"," ","C","a","f","e">>,
      <<" ","P","a","y","m","e","n","t"," ">>,
      <<"t","r","a","n","s","a","c","t","i","o","n"," ","f","e","e">>,
      <<"P","O","S","t"," ","o","f","f","i","c","e">>,
      <<"p","a","p","a","y","m","e","n","t","y","m","e","n","t">>,
      <<"d","e","a","t","m","b","i","t">>,
      <<"G","y","m">>,
      <<"c","r","e","d","i","t"," ","t","r","a","n","s","f","e","r">>,
      <<"W","i","t","h","d","r","a","w","a","l"," ","A","T","M">>,
      <<"p","u","r","a","t","m","c","h","a","s","e">> }

TextMerchants ==
    { None,
      <<>>,
      <<" ","B","o","b"," ">>,
      <<"D","e","p","o","s","i","t">>,
      <<"s">> }

\* preprocess_text is about to be called
TextInit ==
    /\ artifact = Absent
    /\ ml_categorizer = NewCategorizer
    /\ hf_categorizer = LazyFallback
    /\ hf_constructions = 0
    /\ threads = [t \in Threads |-> ThreadIdle]
    /\ \E d \in TextDescriptions, m \in TextMerchants :
          frame = [Idle EXCEPT !.op = "preprocess_text_called",
                               !.description = d, !.merchant_name = m]

\* preprocess_text returns its text, or raises on a description of None
PreprocessReturns ==
    /\ frame.op = "preprocess_text_called"
    /\ LET r == preprocess_text(frame.description, frame.merchant_name)
       IN  frame' = [frame EXCEPT !.op = "preprocess_text",
                                  !.text = r,
                                  !.raised = IF r = None THEN "AttributeError" ELSE ""]
    /\ UNCHANGED <<ml_categorizer, hf_categorizer, artifact, hf_constructions, threads>>

SpecText == TextInit /\ [][PreprocessReturns]_vars

(***************************************************************************)
(* Goals endpoints (api/api_v1/endpoints/goals.py)                         *)
(***************************************************************************)

\* largest amount of money in play (whole units)
MaxAmount == 3

\* amounts a request can carry; nothing validates a GoalUpdate amount
GoalAmounts == (0 - 1)..MaxAmount

\* a GoalUpdate field: <<>> when left out (None), <<v>> when given
Optional(values) == { <<>> } \cup { <<v>> : v \in values }

\* GoalUpdate bodies (name, description and target_date are written through
\* and read by nothing else)
GoalUpdates ==
    [target_amount : Optional(GoalAmounts), current_amount : Optional(GoalAmounts),
     is_active : Optional(BOOLEAN)]

\* the goal the user owns
OwnGoalId == "goal-1"

\* db.commit() succeeds, or raises and the handler rolls back
CommitOutcomes == { "ok", "fails" }

\* create_goal: the row as stored, nothing saved towards it yet
NewGoal(target) ==
    [id |-> OwnGoalId, target_amount |-> target, current_amount |-> 0,
     is_achieved |-> FALSE, is_active |-> TRUE]

\* if goal.current_amount >= goal.target_amount: goal.is_achieved = True
\* (there is no else: the flag is never cleared)
CheckCompleted(goal) ==
    IF goal.current_amount >= goal.target_amount
    THEN [goal EXCEPT !.is_achieved = TRUE] ELSE goal

\* update_goal
update_goal(goal, goal_id, goal_data, commit) ==
    IF goal_id # goal.id THEN [goal |-> goal, status |-> "404"]
    ELSE
    LET g1 == IF goal_data.target_amount # <<>>
              THEN [goal EXCEPT !.target_amount = goal_data.target_amount[1]]
              ELSE goal
        g2 == IF goal_data.current_amount # <<>>
              THEN CheckCompleted([g1 EXCEPT !.current_amount = goal_data.current_amount[1]])
              ELSE g1
        g3 == IF goal_data.is_active # <<>>
              THEN [g2 EXCEPT !.is_active = goal_data.is_active[1]]
              ELSE g2
    IN  IF commit = "fails" THEN [goal |-> goal, status |-> "500"] ELSE [goal |-> g3, status |-> "200"]

\* contribute_to_goal
contribute_to_goal(goal, goal_id, amount, commit) ==
    IF goal_id # goal.id THEN [goal |-> goal, status |-> "404"]
    ELSE IF amount <= 0 THEN [goal |-> goal, status |-> "400"]
    ELSE
    LET g1 == CheckCompleted([goal EXCEPT !.current_amount = @ + amount])
    IN  IF commit = "fails" THEN [goal |-> goal, status |-> "500"] ELSE [goal |-> g1, status |-> "200"]

\* a goal has been created with a positive target
GoalsInit ==
    /\ artifact = Absent
    /\ ml_categorizer = NewCategorizer
    /\ hf_categorizer = LazyFallback
    /\ hf_constructions = 0
    /\ threads = [t \in Threads |-> ThreadIdle]
    /\ \E target \in 1..MaxAmount :
          frame = [op |-> "create_goal", status |-> "200", goal |-> NewGoal(target),
                   goal_id |-> OwnGoalId, amount |-> 0]

CallUpdateGoal ==
    /\ \E goal_id \in { OwnGoalId, "goal-2" }, goal_data \in GoalUpdates, commit \in CommitOutcomes :
          LET r == update_goal(frame.goal, goal_id, goal_data, commit)
          IN  frame' = [op |-> "update_goal", status |-> r.status, goal |-> r.goal,
                        goal_id |-> goal_id, amount |-> 0]
    /\ UNCHANGED <<ml_categorizer, hf_categorizer, artifact, hf_constructions, threads>>

CallContribute ==
    /\ \E goal_id \in { OwnGoalId, "goal-2" }, amount \in GoalAmounts, commit \in CommitOutcomes :
          /\ frame.goal.current_amount + amount <= MaxAmount
          /\ LET r == contribute_to_goal(frame.goal, goal_id, amount, commit)
             IN  frame' = [op |-> "contribute_to_goal", status |-> r.status,
                           goal |-> r.goal, goal_id |-> goal_id, amount |-> amount]
    /\ UNCHANGED <<ml_categorizer, hf_categorizer, artifact, hf_constructions, threads>>

GoalsNext == CallUpdateGoal \/ CallContribute

SpecGoals == GoalsInit /\ [][GoalsNext]_vars

(***************************************************************************)
(* AI assistant (services/ai_assistant.py) and the insights endpoint       *)
(* (api/api_v1/endpoints/ai_assistant.py)                                  *)
(***************************************************************************)

\* any(word in query_lower for word in [...])
AnyWordIn(text, words) ==
    \E w \in words :
       \E i \in 1..(Len(text) - Len(w) + 1) : SubSeq(text, i, i + Len(w) - 1) = w

\* AIAssistant._analyze_intent
_analyze_intent(query) ==
    LET query_lower == Lower(query)
    IN
        IF AnyWordIn(query_lower,
               { <<"n","e","t"," ","w","o","r","t","h">>, <<"w","o","r","t","h">>, <<"a","s","s","e","t","s">>, <<"l","i","a","b","i","l","i","t","i","e","s">> })
        THEN "net_worth"
        ELSE IF AnyWordIn(query_lower,
               { <<"a","c","c","o","u","n","t">>, <<"a","c","c","o","u","n","t","s">>, <<"b","a","l","a","n","c","e">>, <<"b","a","l","a","n","c","e","s">> })
        THEN "account_summary"
        ELSE IF AnyWordIn(query_lower,
               { <<"s","p","e","n","d">>, <<"s","p","e","n","t">>, <<"s","p","e","n","d","i","n","g">>, <<"e","x","p","e","n","s","e">> })
        THEN "spending_summary"
        ELSE IF AnyWordIn(query_lower,
               { <<"b","u","d","g","e","t">>, <<"b","u","d","g","e","t","s">>, <<"r","e","m","a","i","n","i","n","g">> })
        THEN "budget_status"
        ELSE IF AnyWordIn(query_lower,
               { <<"f","i","n","d">>, <<"s","e","a","r","c","h">>, <<"s","h","o","w"," ","m","e">>, <<"t","r","a","n","s","a","c","t","i","o","n","s">> })
        THEN "transaction_search"
        ELSE IF AnyWordIn(query_lower,
               { <<"a","d","v","i","c","e">>, <<"r","e","c","o","m","m","e","n","d">>, <<"s","u","g","g","e","s","t">>, <<"s","h","o","u","l","d"," ","i">> })
        THEN "financial_advice"
        ELSE IF AnyWordIn(query_lower,
               { <<"g","o","a","l">>, <<"g","o","a","l","s">>, <<"s","a","v","e">>, <<"s","a","v","i","n","g">> })
        THEN "goal_progress"
        ELSE IF AnyWordIn(query_lower,
               { <<"c","a","t","e","g","o","r","y">>, <<"c","a","t","e","g","o","r","i","e","s">>, <<"g","r","o","c","e","r","i","e","s">>, <<"r","e","s","t","a","u","r","a","n","t","s">> })
        THEN "category_analysis"
        ELSE "general_chat"

\* the queries get_financial_insights sends, in its order
SpendingQuery == <<"H","o","w"," ","m","u","c","h"," ","d","i","d"," ","I"," ","s","p","e","n","d"," ","l","a","s","t"," ","m","o","n","t","h","?">>
BudgetQuery == <<"S","h","o","w"," ","m","e"," ","m","y"," ","b","u","d","g","e","t"," ","s","t","a","t","u","s">>
CategoryQuery == <<"W","h","a","t","'","s"," ","m","y"," ","b","i","g","g","e","s","t"," ","e","x","p","e","n","s","e"," ","c","a","t","e","g","o","r","y","?">>
GoalsQuery == <<"H","o","w"," ","a","r","e"," ","m","y"," ","s","a","v","i","n","g","s"," ","g","o","a","l","s"," ","d","o","i","n","g","?">>

\* queries a user may type
Queries ==
    { SpendingQuery, BudgetQuery, CategoryQuery, GoalsQuery,
      <<"F","i","n","d"," ","t","r","a","n","s","a","c","t","i","o","n","s"," ","a","t"," ","S","t","a","r","b","u","c","k","s">>,
      <<"W","h","a","t"," ","i","s"," ","m","y"," ","N","E","T"," ","W","O","R","T","H","?">>,
      <<"A","c","c","o","u","n","t"," ","b","a","l","a","n","c","e">>,
      <<"S","h","o","u","l","d"," ","I"," ","s","a","v","e"," ","m","o","r","e","?">>,
      <<"B","u","d","g","e","t"," ","f","o","r"," ","g","r","o","c","e","r","i","e","s">>,
      <<"S","h","o","w"," ","m","e"," ","m","y"," ","g","o","a","l","s">>,
      <<"G","r","o","c","e","r","i","e","s">>,
      <<"A","n","y"," ","a","d","v","i","c","e"," ","o","n"," ","s","p","e","n","d","i","n","g","?">>,
      <<"h","e","l","l","o">>,
      <<>> }

\* what the database and the OpenAI client hold for the user: the expenses
\* of the period asked about, whether they fall into categories, whether
\* budgets and goals exist, how the client answers, whether a query fails
Ledgers ==
    [spent : { 0, 5 }, categorised : BOOLEAN, budgets : BOOLEAN, goals : BOOLEAN,
     client : { "unconfigured", "answers", "errors" }, fails : BOOLEAN]

\* a handler's dict: its keys, the keys holding a non-empty list, and
\* the number under total_spent (0 when the key is missing)
Response(type, keys, filled, total_spent) ==
    [type |-> type, keys |-> keys, filled |-> filled, total_spent |-> total_spent]

_get_spending_summary(db) ==
    Response("spending_summary",
             { "type", "period", "total_spent", "transaction_count",
               "top_categories", "message" },
             IF db.spent > 0 THEN { "top_categories" } ELSE {}, db.spent)

_get_budget_status(db) ==
    Response("budget_status",
             { "type", "budgets", "total_budgeted", "total_spent",
               "overall_remaining", "message" },
             IF db.budgets THEN { "budgets" } ELSE {},
             IF db.budgets THEN db.spent ELSE 0)

_search_transactions(db) ==
    Response("transaction_search",
             { "type", "transactions", "count", "search_terms", "message" },
             IF db.spent > 0 THEN { "transactions" } ELSE {}, 0)

_get_financial_advice(db) ==
    CASE db.client = "unconfigured" ->
           Response("financial_advice", { "type", "message", "advice" }, {}, 0)
      [] db.client = "answers" ->
           Response("financial_advice", { "type", "message", "context" }, {}, 0)
      [] OTHER ->
           Response("financial_advice", { "type", "message", "error" }, {}, 0)

_get_goal_progress(db) ==
    Response("goal_progress", { "type", "goals", "message" },
             IF db.goals THEN { "goals" } ELSE {}, 0)

_analyze_category_spending(db) ==
    Response("category_analysis", { "type", "period", "categories", "message" },
             IF db.categorised THEN { "categories" } ELSE {}, 0)

_calculate_net_worth(db) ==
    Response("net_worth",
             { "type", "net_worth", "total_assets", "total_liabilities",
               "accounts", "message" }, {}, 0)

_get_account_summary(db) ==
    Response("account_summary",
             { "type", "accounts", "total_accounts", "total_balance",
               "linked_accounts", "manual_accounts", "message" }, {}, 0)

_general_chat(db) ==
    Response("general_chat", { "type", "message", "suggestions" }, { "suggestions" }, 0)

\* a query of the handler raised
Raised == Response("raised", {}, {}, 0)

\* AIAssistant.process_query
process_query(query, db) ==
    LET intent == _analyze_intent(query)
    IN  IF db.fails /\ intent # "general_chat" THEN Raised
        ELSE CASE intent = "spending_summary" -> _get_spending_summary(db)
               [] intent = "budget_status" -> _get_budget_status(db)
               [] intent = "transaction_search" -> _search_transactions(db)
               [] intent = "financial_advice" -> _get_financial_advice(db)
               [] intent = "goal_progress" -> _get_goal_progress(db)
               [] intent = "category_analysis" -> _analyze_category_spending(db)
               [] intent = "net_worth" -> _calculate_net_worth(db)
               [] intent = "account_summary" -> _get_account_summary(db)
               [] OTHER -> _general_chat(db)

\* insights.append({...}) under its condition
Insight(condition, type) == IF condition THEN << type >> ELSE << >>

\* get_financial_insights
get_financial_insights(db) ==
    LET spending_response == process_query(SpendingQuery, db)
        budget_response == process_query(BudgetQuery, db)
        category_response == process_query(CategoryQuery, db)
        goals_response == process_query(GoalsQuery, db)
        responses == << spending_response, budget_response,
                        category_response, goals_response >>
    IN  IF \E i \in 1..Len(responses) : responses[i] = Raised
        THEN [status |-> "500", responses |-> responses, insights |-> << >>]
        ELSE [status |-> "200", responses |-> responses,
              insights |->
                 Insight(spending_response.total_spent > 0, "spending")
                 \o Insight("budgets" \in budget_response.filled, "budget")
                 \o Insight("categories" \in category_response.filled, "category")
                 \o Insight("goals" \in goals_response.filled, "goals")]

\* the service is up; no request yet
InsightsInit ==
    /\ artifact = Absent
    /\ ml_categorizer = NewCategorizer
    /\ hf_categorizer = LazyFallback
    /\ hf_constructions = 0
    /\ threads = [t \in Threads |-> ThreadIdle]
    /\ frame = [op |-> "idle"]

CallProcessQuery ==
    /\ frame.op = "idle"
    /\ \E query \in Queries, db \in Ledgers :
          frame' = [op |-> "process_query", query |-> query, db |-> db,
                    intent |-> _analyze_intent(query),
                    response |-> process_query(query, db)]
    /\ UNCHANGED <<ml_categorizer, hf_categorizer, artifact, hf_constructions, threads>>

CallInsights ==
    /\ frame.op = "idle"
    /\ \E db \in Ledgers :
          LET r == get_financial_insights(db)
          IN  frame' = [op |-> "get_financial_insights", db |-> db,
                        status |-> r.status, responses |-> r.responses,
                        insights |-> r.insights]
    /\ UNCHANGED <<ml_categorizer, hf_categorizer, artifact, hf_constructions, threads>>

\* the response has been sent
InsightsReturn ==
    /\ frame.op \in { "process_query", "get_financial_insights" }
    /\ frame' = [op |-> "idle"]
    /\ UNCHANGED <<ml_categorizer, hf_categorizer, artifact, hf_constructions, threads>>

InsightsNext == CallProcessQuery \/ CallInsights \/ InsightsReturn

SpecInsights == InsightsInit /\ [][InsightsNext]_vars

(***************************************************************************)
(* Properties                                                              *)
(***************************************************************************)

Categorized == frame.op = "categorize_transaction"

CorpusNamed(name) == CHOOSE c \in Corpora : c.name = name

\* C1: every value categorize_transaction returns is a member of
\* TransactionCategory, whatever the input and whatever the primary model
\* was trained on or loaded from.
C1_ReturnsEnumMember ==
    Categorized /\ frame.raised = "" => frame.category \in TransactionCategory

\* C2: categorize_transaction never lets an exception reach its caller; a
\* failure of the primary predict, of the fallback's construction or of the
\* fallback's predict ends the call with UNCATEGORIZED.
C2_NeverRaises ==
    Categorized =>
        /\ frame.raised = ""
        /\ ( \/ frame.primary[1] = "raised"
             \/ frame.construct = "failed"
             \/ frame.fallback[1] = "raised" ) => frame.category = UNCATEGORIZED

\* a call in which the trained primary raised
C2_Witness ==
    Categorized /\ frame.primary[1] = "raised" /\ frame.category = UNCATEGORIZED

\* C3: when the trained primary returns (category, confidence), the call
\* returns that category without entering the fallback stage exactly when
\* confidence > 0.7; at 0.7 it goes on to the fallback stage.
C3_PrimaryGateStrict ==
    Categorized /\ frame.primary[1] = "returned" =>
        /\ frame.primary[3] > 70 <=> frame.construct = "skipped"
        /\ frame.primary[3] > 70 =>
              frame.category = frame.primary[2] /\ frame.fallback = NotCalled

\* the primary answered with exactly 0.7 and the fallback was asked
C3_Witness ==
    /\ Categorized
    /\ frame.primary[1] = "returned"
    /\ frame.primary[3] = 70
    /\ frame.fallback[1] = "returned"

\* C4: when the fallback returns (label, confidence), the call returns the
\* mapped label if confidence > 0.5 and UNCATEGORIZED otherwise; with an
\* untrained primary ("restaurants and dining", 0.82) gives RESTAURANTS.
C4_FallbackGateStrict ==
    Categorized /\ frame.fallback[1] = "returned" =>
        /\ frame.category = IF frame.fallback[3] > 50
                            THEN category_mapping(frame.fallback[2])
                            ELSE UNCATEGORIZED
        /\ ( /\ frame.primary = NotCalled
             /\ frame.fallback = <<"returned", "restaurants and dining", 82>> )
           => frame.category = "RESTAURANTS"

\* the fallback answered "restaurants and dining" with exactly 0.5
C4_Witness ==
    /\ Categorized
    /\ frame.primary = NotCalled
    /\ frame.fallback = <<"returned", "restaurants and dining", 50>>
    /\ frame.category = UNCATEGORIZED

\* C5: with an untrained primary, a failing construction of the fallback
\* ends the call with UNCATEGORIZED and no exception, and leaves the
\* instance, the file and the empty fallback slot as they were, so the next
\* call is served like this one.
C5_ConstructionFailureAbsorbed ==
    [][ ( /\ frame'.op = "categorize_transaction"
          /\ frame'.construct = "failed"
          /\ ~ml_categorizer.is_trained )
        => /\ frame'.category = UNCATEGORIZED
           /\ frame'.raised = ""
           /\ hf_categorizer' = "None"
           /\ UNCHANGED <<ml_categorizer, artifact>> ]_vars

\* a call on an untrained primary whose fallback could not be constructed
C5_Witness ==
    /\ Categorized
    /\ frame.construct = "failed"
    /\ ~ml_categorizer.is_trained
    /\ frame.primary = NotCalled

\* C6: the input ("", "", []) is answered UNCATEGORIZED in every state of
\* the classifiers.
C6_EmptyInputUncategorized ==
    ( /\ Categorized
      /\ frame.description = sEmpty
      /\ frame.merchant_name = sEmpty
      /\ frame.categories = <<>> ) => frame.category = UNCATEGORIZED

C8_RejectedTrainChangesNothing ==
    [][ (frame'.op = "train" /\ frame'.stage = "size_check")
        => UNCHANGED <<ml_categorizer, artifact, hf_categorizer>> ]_vars

\* a trained model with its artifact in place saw a refused train call
C8_Witness ==
    /\ frame.op = "train"
    /\ frame.stage = "size_check"
    /\ ml_categorizer.is_trained
    /\ artifact.kind = "dict"

\* the file is missing, unreadable, or lacks a key load_model reads
UnusableArtifact ==
    \/ artifact.kind \in { "absent", "unreadable" }
    \/ { "vectorizer", "classifier", "is_trained" } \ artifact.keys # {}

Loaded == frame.op \in { "__init__", "load_model" }

C10_UntrainedPredictDefault ==
    ~ml_categorizer.is_trained =>
        /\ frame.op = "predict" =>
              frame.prediction = <<"returned", UNCATEGORIZED, 0>> /\ frame.raised = ""
        /\ frame.op = "predict_batch" =>
              /\ frame.raised = ""
              /\ Len(frame.predictions) = Len(frame.transactions)
              /\ \A i \in 1..Len(frame.predictions) :
                    frame.predictions[i] = <<"returned", UNCATEGORIZED, 0>>

\* an untrained primary was handed a batch of two, one without description
C10_Witness ==
    /\ ~ml_categorizer.is_trained
    /\ frame.op = "predict_batch"
    /\ Len(frame.transactions) = 2
    /\ frame.transactions[1].description = None
    /\ Len(frame.predictions) = 2

C13_UntrainedSaveIsNoOp ==
    [][ (frame'.op = "save_model" /\ ~ml_categorizer.is_trained)
        => /\ frame'.raised = ""
           /\ UNCHANGED <<ml_categorizer, artifact, hf_categorizer>> ]_vars

\* an untrained categorizer was saved where not even the directory exists
C13_Witness ==
    /\ frame.op = "save_model"
    /\ ~ml_categorizer.is_trained
    /\ artifact = NoDirectory

\* C14: a train call that ended normally leaves is_trained true and the
\* classifier fitted on its labels, whatever accuracy it reports, and a
\* categorize_transaction call on a trained categorizer gets its primary
\* answer from the model then held.
C14_PromotedWhateverAccuracy ==
    /\ frame.op = "train" /\ frame.stage = "done" =>
          /\ ml_categorizer.is_trained
          /\ ml_categorizer.classifier.state = "fitted"
          /\ ml_categorizer.classifier.classes = Labels(CorpusNamed(frame.corpus))
    /\ Categorized /\ ml_categorizer.is_trained =>
          frame.primary = predict(ml_categorizer, frame.description, frame.merchant_name)

\* a training that scored 0 on its held-out rows was promoted
C14_Witness ==
    /\ frame.op = "train"
    /\ frame.stage = "done"
    /\ frame.report[1] = 0
    /\ ml_categorizer.is_trained

\* C16: over the calls of one process HuggingFaceCategorizer() is invoked
\* at most once.
C16_ConstructedAtMostOnce == hf_constructions <= 1

\* C15: each of the twelve candidate labels is mapped to a member of
\* TransactionCategory, and HuggingFaceCategorizer.predict returns a member
\* for whatever label the pipeline reports, UNCATEGORIZED for one that is
\* not a candidate label.
C15_MapperTotal ==
    /\ Cardinality(CandidateLabels) = 12
    /\ \A l \in CandidateLabels : category_mapping(l) \in TransactionCategory
    /\ frame.op = "hf_predict" /\ frame.fallback[1] = "returned" =>
          /\ frame.prediction[2] \in TransactionCategory
          /\ frame.fallback[2] \notin CandidateLabels =>
                frame.prediction[2] = UNCATEGORIZED

\* the pipeline reported a label in another spelling than the candidate's
C15_Witness ==
    /\ frame.op = "hf_predict"
    /\ frame.fallback[2] = "Travel"
    /\ frame.prediction[2] = UNCATEGORIZED

\* threads that found _hf_categorizer unset and invoked HuggingFaceCategorizer()
Initializers ==
    { t \in Threads : threads[t].construct \in { "constructed", "failed" } }

\* C17: of the threads that reach the fallback stage while the fallback is
\* unconstructed at most one starts an initialization, the others use its
\* result (stated for runs in which no initialization fails).
C17_SingleFlight ==
    (\A t \in Threads : threads[t].construct # "failed")
    => Cardinality(Initializers) <= 1

\* the calls of the threads made one after another in the order `order`,
\* from _hf_categorizer = hf on: the k-th and later calls can return what the
\* threads returned, the pipeline answering each text as it did and
\* HuggingFaceCategorizer() ending for a thread as cons says
RECURSIVE SequentialAgrees(_, _, _, _)
SequentialAgrees(order, k, hf, cons) ==
    IF k > Len(order) THEN TRUE
    ELSE LET l == threads[order[k]]
             answers == IF l.fallback[1] = "skipped"
                        THEN PipelineOutcomes ELSE { l.fallback }
         IN  \E pipe \in answers :
                LET r == categorize_transaction(ml_categorizer, hf, l.description,
                                                l.merchant_name, <<>>,
                                                cons[order[k]], pipe)
                IN  /\ r.category = l.category
                    /\ r.raised = l.raised
                    /\ SequentialAgrees(order, k + 1, r.hf, cons)

AllReturned ==
    \A t \in Threads :
        threads[t].pc = "done" /\ threads[t].op = "categorize_transaction"

\* C20: when simultaneous categorize_transaction calls have all returned,
\* the categories they returned are those the same calls return when made
\* one after another in some order (same inputs, same pipeline answers, a
\* construction ending as it did for the thread that ran it).
C20_SameAsSequential ==
    AllReturned =>
        \E order \in { o \in [1..NumThreads -> Threads] :
                         \A i, j \in 1..NumThreads : o[i] = o[j] => i = j },
           cons \in [Threads -> BOOLEAN] :
            /\ \A t \in Threads :
                  /\ threads[t].construct = "failed" => ~cons[t]
                  /\ threads[t].construct = "constructed" => cons[t]
            /\ SequentialAgrees(order, 1, "None", cons)

\* every thread built a fallback of its own and one of them returned
\* RESTAURANTS
C20_Witness ==
    /\ AllReturned
    /\ \A t \in Threads : threads[t].construct = "constructed"
    /\ \E t \in Threads : threads[t].category = "RESTAURANTS"

\* the forests a predict call read at lines 130 and 131
ForestsRead(t) ==
    { threads[t].observed[i] : i \in 2..Len(threads[t].observed) }

\* C18: a predict call that runs while train runs on the same categorizer
\* reads a whole model: the forest it asks is fitted, is the same at both
\* of its reads and was fitted on rows of the vocabulary the call
\* vectorized with.
C18_PredictSeesWholeModel ==
    \A t \in Threads :
        threads[t].op \in { "predict", "categorize_transaction" } =>
            /\ Cardinality(ForestsRead(t)) <= 1
            /\ \A clf \in ForestsRead(t) :
                  /\ clf.state = "fitted"
                  /\ clf.n_features = Cardinality(threads[t].observed[1].vocabulary)

\* threads between the start of classifier.fit and the end of save_model
Training ==
    { t \in Threads :
        threads[t].pc \in { "t_fitting", "t_evaluate", "t_save", "t_dump" } }

\* C19: at most one train call is between the start of its fit and the end
\* of its save, and a file that train has written holds a fitted forest.
C19_OneTrainingAtATime ==
    /\ Cardinality(Training) <= 1
    /\ artifact.kind = "dict" => artifact.classifier.state = "fitted"

\* C21: no categorize_transaction, predict or predict_batch call changes the
\* instance (is_trained, vectorizer, classifier, categories) or the file.
C21_InferenceReadOnly ==
    [][ frame'.op \in { "categorize_transaction", "predict", "predict_batch" }
        => UNCHANGED <<ml_categorizer, artifact>> ]_vars

\* a trained model answered a batch of two
C21_Witness ==
    /\ frame.op = "predict_batch"
    /\ ml_categorizer.is_trained
    /\ Len(frame.predictions) = 2

\* the primary stage of the call in `f` ended the call at line 288
ShortCircuited(f) ==
    /\ f.op = "categorize_transaction"
    /\ f.primary[1] = "returned"
    /\ f.primary[3] > 70

\* C22: the fallback is unset at process start; it is constructed, and its
\* predict is called, only by a categorize_transaction call whose primary
\* was untrained or answered with confidence <= 0.7; a call that returns
\* the primary's answer neither constructs nor calls it.
C22_FallbackLazy ==
    /\ hf_categorizer = "None" /\ hf_constructions = 0
    /\ [][ /\ ( \/ hf_categorizer' # hf_categorizer
                \/ hf_constructions' # hf_constructions
                \/ frame'.construct # "skipped"
                \/ frame'.fallback # NotCalled )
              => /\ frame'.op = "categorize_transaction"
                 /\ \/ ~ml_categorizer.is_trained /\ frame'.primary = NotCalled
                    \/ frame'.primary[1] = "returned" /\ frame'.primary[3] <= 70
           /\ ShortCircuited(frame')
              => /\ frame'.construct = "skipped"
                 /\ frame'.fallback = NotCalled
                 /\ UNCHANGED <<hf_categorizer, hf_constructions>> ]_vars

\* a call returned the primary's answer and the fallback is still unset
C22_Witness ==
    /\ ShortCircuited(frame)
    /\ hf_categorizer = "None"
    /\ hf_constructions = 0

\* C23: a train call that gets past create_features holds the vocabulary
\* of the corpus it was given, also when the categorizer held a vocabulary
\* before; and the file is written only by a call that has fitted and
\* evaluated.
C23_VocabularyFromThisCorpus ==
    [][ frame'.op = "train" =>
          /\ frame'.stage \in { "split", "fit", "save", "done" } =>
                ml_categorizer'.vectorizer.vocabulary
                   = FitVocabulary(RowTexts(CorpusNamed(frame'.corpus).rows))
          /\ frame'.stage \notin { "save", "done" } => artifact' = artifact ]_vars

\* the lowercased, stripped description joined with the merchant
JoinedText(f) ==
    Strip(Lower(f.description))
       \o (IF Truthy(f.merchant_name)
           THEN <<" ">> \o Strip(Lower(f.merchant_name)) ELSE <<>>)

Occurs(s, t) ==
    \E i \in 1..(Len(s) - Len(t) + 1) : SubSeq(s, i, i + Len(t) - 1) = t

\* the positions where one left-to-right pass removes an occurrence of t:
\* t stands there and no earlier removed occurrence covers the position
RemovalStarts(s, t) ==
    LET n == Len(s)
        L == Len(t)
        starts[i \in 1..n] ==
            /\ i + L - 1 <= n
            /\ SubSeq(s, i, i + L - 1) = t
            /\ \A j \in 1..(i - 1) : j > i - L => ~starts[j]
    IN  { i \in 1..n : starts[i] }

RECURSIVE KeptFrom(_, _, _)
KeptFrom(s, covered, p) ==
    IF p > Len(s) THEN <<>>
    ELSE (IF p \in covered THEN <<>> ELSE <<s[p]>>) \o KeptFrom(s, covered, p + 1)

OnePass(s, t) ==
    LET st == RemovalStarts(s, t)
    IN  KeptFrom(s, { p \in 1..Len(s) : \E i \in st : i <= p /\ p < i + Len(t) }, 1)

TenTerms ==
    << <<"p","a","y","m","e","n","t">>,
       <<"p","u","r","c","h","a","s","e">>,
       <<"t","r","a","n","s","a","c","t","i","o","n">>,
       <<"d","e","b","i","t">>,
       <<"c","r","e","d","i","t">>,
       <<"p","o","s">>,
       <<"a","t","m">>,
       <<"w","i","t","h","d","r","a","w","a","l">>,
       <<"d","e","p","o","s","i","t">>,
       <<"t","r","a","n","s","f","e","r">> >>

NineTerms == { TenTerms[k] : k \in (1..Len(TenTerms)) \ {3} }

RECURSIVE PassEach(_, _)
PassEach(s, k) ==
    IF k > Len(TenTerms) THEN s ELSE PassEach(OnePass(s, TenTerms[k]), k + 1)

\* C24 (as the code has it): the result of preprocess_text is the joined
\* lowercased text after one pass per term over the ten terms payment,
\* purchase, transaction, debit, credit, pos, atm, withdrawal, deposit,
\* transfer, in that order, each pass removing the non-overlapping literal
\* occurrences of its term from left to right, stripped at both ends; a text
\* holding none of the ten terms is only stripped.
C24_TenTermRemoval ==
    frame.op = "preprocess_text" /\ frame.description # None =>
        /\ frame.text = Strip(PassEach(JoinedText(frame), 1))
        /\ (\A k \in 1..Len(TenTerms) : ~Occurs(JoinedText(frame), TenTerms[k]))
              => frame.text = Strip(JoinedText(frame))
        /\ \A k \in 1..Len(TenTerms) :
              Occurs(JoinedText(frame), TenTerms[k]) => frame.text # Strip(JoinedText(frame))

C24_Witness ==
    /\ frame.op = "preprocess_text"
    /\ frame.description = <<"t","r","a","n","s","a","c","t","i","o","n"," ","f","e","e">>
    /\ frame.merchant_name = <<" ","B","o","b"," ">>
    /\ frame.text = <<"f","e","e"," ","b","o","b">>

\* C24 (as claimed): only the nine terms payment, purchase, debit, credit,
\* pos, atm, withdrawal, deposit, transfer are removed, so a text holding
\* none of the nine comes back stripped and otherwise whole.
C24_OnlyNineTerms ==
    frame.op = "preprocess_text" /\ frame.description # None =>
        ((\A t \in NineTerms : ~Occurs(JoinedText(frame), t))
            => frame.text = Strip(JoinedText(frame)))

\* the held classifier was fitted, and on rows of the held vocabulary
FittedOnHeldVocabulary(ml) ==
    /\ HasVocabulary(ml.vectorizer)
    /\ ml.classifier.state = "fitted"
    /\ ml.classifier.n_features = Cardinality(ml.vectorizer.vocabulary)
    /\ ml.classifier.splits \subseteq ml.vectorizer.vocabulary

\* C25: whenever is_trained is true, the held vectorizer has a fitted
\* vocabulary and the held classifier was fitted on vectors of that same
\* vocabulary, whatever loads, trainings (failed or not) and predictions
\* came before.
C25_TrainedMeansConsistent ==
    ml_categorizer.is_trained => FittedOnHeldVocabulary(ml_categorizer)

\* C26: a train call that passes the size check and then fails in the
\* split, in fitting or in save_model leaves the vocabulary, the classifier,
\* is_trained and the model file as they were before the call.
C26_FailedTrainChangesNothing ==
    [][ (frame'.op = "train" /\ frame'.raised # ""
            /\ frame'.stage \in { "split", "fit", "save" })
          => UNCHANGED <<ml_categorizer, artifact>> ]_vars

\* C27: the category hints do not influence the result: a call with the
\* same description and merchant in the same classifier state, given the
\* same answers by the models, returns the same category and leaves the
\* same fallback behind whatever hints it is passed.
C27_HintsIgnored ==
    [][ frame'.op = "categorize_transaction" =>
          \A h \in Hints, constructs \in BOOLEAN, pipe \in PipelineOutcomes :
             LET r == categorize_transaction(ml_categorizer, hf_categorizer,
                                             frame'.description, frame'.merchant_name,
                                             h, constructs, pipe)
             IN  ( r.primary = frame'.primary /\ r.construct = frame'.construct
                   /\ r.fallback = frame'.fallback )
                 => ( r.category = frame'.category /\ r.raised = frame'.raised
                      /\ r.hf = hf_categorizer' ) ]_vars

C27_Witness ==
    /\ frame.op = "categorize_transaction"
    /\ frame.categories = <<"Food and Drink">>
    /\ frame.fallback = <<"returned", "restaurants and dining", 50>>
    /\ frame.category = UNCATEGORIZED

\* C29: after any sequence of update_goal and contribute_to_goal calls,
\* is_achieved is true exactly when current_amount >= target_amount; and a
\* contribute_to_goal call with amount <= 0 is rejected and leaves the goal
\* unchanged.
C29_AchievedIffReached ==
    /\ [](frame.goal.is_achieved
            <=> frame.goal.current_amount >= frame.goal.target_amount)
    /\ [][ (frame'.op = "contribute_to_goal" /\ frame'.amount <= 0)
             => (frame'.status \in { "400", "404" } /\ frame'.goal = frame.goal) ]_vars

\* the keyword groups in their priority order
KeywordGroups ==
    << [intent |-> "net_worth",
        words |-> { <<"n","e","t"," ","w","o","r","t","h">>, <<"w","o","r","t","h">>, <<"a","s","s","e","t","s">>, <<"l","i","a","b","i","l","i","t","i","e","s">> }],
       [intent |-> "account_summary",
        words |-> { <<"a","c","c","o","u","n","t">>, <<"a","c","c","o","u","n","t","s">>, <<"b","a","l","a","n","c","e">>, <<"b","a","l","a","n","c","e","s">> }],
       [intent |-> "spending_summary",
        words |-> { <<"s","p","e","n","d">>, <<"s","p","e","n","t">>, <<"s","p","e","n","d","i","n","g">>, <<"e","x","p","e","n","s","e">> }],
       [intent |-> "budget_status",
        words |-> { <<"b","u","d","g","e","t">>, <<"b","u","d","g","e","t","s">>, <<"r","e","m","a","i","n","i","n","g">> }],
       [intent |-> "transaction_search",
        words |-> { <<"f","i","n","d">>, <<"s","e","a","r","c","h">>, <<"s","h","o","w"," ","m","e">>, <<"t","r","a","n","s","a","c","t","i","o","n","s">> }],
       [intent |-> "financial_advice",
        words |-> { <<"a","d","v","i","c","e">>, <<"r","e","c","o","m","m","e","n","d">>, <<"s","u","g","g","e","s","t">>, <<"s","h","o","u","l","d"," ","i">> }],
       [intent |-> "goal_progress",
        words |-> { <<"g","o","a","l">>, <<"g","o","a","l","s">>, <<"s","a","v","e">>, <<"s","a","v","i","n","g">> }],
       [intent |-> "category_analysis",
        words |-> { <<"c","a","t","e","g","o","r","y">>, <<"c","a","t","e","g","o","r","i","e","s">>, <<"g","r","o","c","e","r","i","e","s">>, <<"r","e","s","t","a","u","r","a","n","t","s">> }] >>

\* the intent of the first group with a keyword occurring in the text
FirstGroupIntent(text) ==
    LET hits == { k \in 1..Len(KeywordGroups) :
                    \E w \in KeywordGroups[k].words : Occurs(text, w) }
    IN  IF hits = {} THEN "general_chat"
        ELSE KeywordGroups[CHOOSE k \in hits : \A j \in hits : k <= j].intent

\* the key get_financial_insights reads from each of its four responses
InsightKeys == << "total_spent", "budgets", "categories", "goals" >>

\* C30: _analyze_intent returns the intent of the first keyword group, in
\* priority order, with a keyword occurring in the lowercased query
\* (general_chat if none), and each of the four queries issued by
\* get_financial_insights reaches a handler whose response carries the key
\* the endpoint then reads (total_spent, budgets, categories, goals).
C30_InsightsRouting ==
    /\ frame.op = "process_query" =>
          frame.intent = FirstGroupIntent(Lower(frame.query))
    /\ (frame.op = "get_financial_insights" /\ frame.status = "200") =>
          \A i \in 1..Len(InsightKeys) : InsightKeys[i] \in frame.responses[i].keys

====
